---- MODULE Spec2Model ----
(***************************************************************************)
(* A model of the imp coordinator of tardy (src/src/imp.rs) together with  *)
(* the part of the application that answers the imps (src/src/app.rs).     *)
(*                                                                         *)
(*   ImpKing  : owns the frame reservoir `frames`, the receiver `rx` of    *)
(*              the bounded mpsc channel and one sender `tx`; `imps`       *)
(*              provisions Imp values, `spawn_imps` starts them as tasks,  *)
(*              `listen` forwards every received Hijinks to the event loop *)
(*              proxy.                                                     *)
(*   Imp      : a task that loops over meddle (instigate or spoil) and     *)
(*              vandalize, sending Hijinks on its clone of `tx`, and that  *)
(*              asks for frames with a oneshot channel (filch).            *)
(*   App      : the consumer behind the proxy; its Hijinks handler answers *)
(*              a Filch with freshly generated frames or drops it.         *)
(*   Quotes   : the catalog; `from_path` reads it row by row from a csv    *)
(*              file when the king is summoned (FromPathSpec).             *)
(*                                                                         *)
(* Frames are modelled by identifiers: a clone of a frame has the          *)
(* identifier of the frame it was cloned from.                             *)
(***************************************************************************)
EXTENDS Integers, Sequences, FiniteSets, TLC

\* ------------------------------------------------------------------ bounds
\* Largest reservoir handed to ImpKing::summon.
MaxPool == 2
\* Frames given to each imp (FRAMES of app.rs, scaled down).
FRAMES == 1
\* Largest number of imps ever provisioned.
MaxImps == 2
\* Largest capacity of the mpsc channel.
MaxBuffer == 2
\* Largest number of quotes in the catalog.
MaxQuotes == 1
\* Largest value of the random draw of vandalize (a u16 in the code): one
\* value more than the largest catalog has indices.
MaxTrial == MaxQuotes
\* Largest number of Hijinks one imp of a full cohort sends.
MaxSends == 2
\* The largest u16, and the values drawn for the u16 of Imp::pause: the two
\* ends of the type.
U16Max == 65535
PauseDraws == {0, U16Max}
\* Largest number of rows, after the header, of the quotes file.
MaxRows == 3
\* MIN_SPAN of app.rs, scaled down with the monitors: the least width and
\* height of a Frame and the least margin between a Frame and its monitor.
MIN_SPAN == 2
\* Largest width and largest height of a monitor.
MaxSide == 6
\* Width in bits of the unsigned integers of a monitor size, a Frame size and
\* a Frame position (u32 in the source, scaled down with the monitors).
WordBits == 4
\* Largest number of windows the App creates in one run.
MaxWindows == 4

\* ------------------------------------------------------------------ values
NoFrame == 0
NoTx == 0
NoMsg == [type |-> "None", act |-> "Be", frame |-> NoFrame, quote |-> 0,
          tx |-> NoTx, from |-> 0, seq |-> 0]

VARIABLES
    frames,     \* ImpKing.frames: the reservoir
    pool0,      \* the frames ImpKing::summon was called with
    quotes,     \* ImpKing.quotes: the catalog (in from_path: the vector being filled)
    rdr,        \* the csv file Quotes::from_path reads, and how far it has got
    app,        \* the App: its table of windows, whether the event loop was
                \* asked to exit, and the Frame being made from a monitor
    buffer,     \* capacity of the mpsc channel made by summon
    kingPc,     \* "Summoning" (in from_path), "SummonFailed" (summon returned
                \* Err), "Idle", "Listening", "Failed" (listen returned Err),
                \* "Dropped"
    imps,       \* the Imp values provisioned so far, in order of creation
    chan,       \* the Hijinks queued in the mpsc channel
    rxOpen,     \* the mpsc receiver is alive
    proxyOpen,  \* the event loop behind the proxy is alive
    events,     \* user events queued in the event loop, not yet handled
    oneshots,   \* every oneshot channel created by filch, in order of creation
    nextFrame,  \* identifier of the next frame App::frames generates
    last        \* the operation that produced this state, with its inputs

vars == <<frames, pool0, quotes, rdr, buffer, app, kingPc, imps, chan, rxOpen, proxyOpen,
          events, oneshots, nextFrame, last>>

\* The App before it has a window and before any Frame is asked of it:
\* `windows` holds the ids of the table of windows, `requested` the ids of the
\* windows whose Lens is under way, `created` counts the windows ever made by
\* request_window, `exiting` tells that event_loop.exit() was called.
NoSize == [width |-> 0, height |-> 0]
NoPosition == [x |-> 0, y |-> 0]
AppAtRest == [windows |-> {}, requested |-> {}, created |-> 0, exiting |-> FALSE,
              checks |-> TRUE, monitor_size |-> NoSize, size |-> NoSize,
              position |-> NoPosition, pc |-> "rest"]

\* ---------------------------------------------------------------- helpers
Last(s) == s[Len(s)]
Front(s) == SubSeq(s, 1, Len(s) - 1)
Range(s) == {s[i] : i \in 1..Len(s)}

RECURSIVE SumLen(_, _)
\* Sum of the sizes of the private frame vectors of imps[1..n].
SumLen(is, n) == IF n = 0 THEN 0 ELSE Len(is[n].frames) + SumLen(is, n - 1)

\* The record kept in `last`: the operation, the imp that took it, and for
\* spawn_imps the count asked for, the imps created and the size of the
\* reservoir found; for a receive, the message received.
Op(name, w) == [op |-> name, w |-> w, count |-> 0, created |-> 0, avail |-> 0,
                msg |-> NoMsg]

\* ------------------------------------------------------------ ImpKing::imps
\* Imp::new(frames, name, quotes, tx): a fresh Imp, about to enter hijinks.
NewImp(fs) == [frames |-> fs, pc |-> "loop", msg |-> NoMsg, rx |-> NoTx, sent |-> 0]

\* `let mut frame_drain = self.frames.clone()`: the drain is a copy of the
\* reservoir; the reservoir itself is behind `&self` and is not written.
FrameDrain(pool) == pool

\* A variant of OutOfFrames that returns the imps provisioned so far.
OutOfFramesPartial(acc) == acc

\* `return Vec::new()`: the vector returned when the drain runs dry.
OutOfFrames(acc) == <<>>

RECURSIVE FillFrames(_, _)
\* `while frames.len() < FRAMES { if let Some(value) = frame_drain.pop() ... }`
FillFrames(drain, got) ==
    IF Len(got) < FRAMES
    THEN IF drain # <<>>
         THEN FillFrames(Front(drain), Append(got, Last(drain)))
         ELSE [ok |-> FALSE, drain |-> drain, got |-> got]
    ELSE [ok |-> TRUE, drain |-> drain, got |-> got]

RECURSIVE ImpsLoop(_, _, _)
\* `for name in names.into_iter() { ... imps.push(imp) }`
ImpsLoop(drain, n, acc) ==
    IF n = 0
    THEN acc
    ELSE LET f == FillFrames(drain, <<>>)
         IN  IF f.ok
             THEN ImpsLoop(f.drain, n - 1, Append(acc, NewImp(f.got)))
             ELSE OutOfFrames(acc)

\* ImpKing::imps(&self, count)
Imps(count) == ImpsLoop(FrameDrain(frames), count, <<>>)

\* ------------------------------------------------------- Quotes::from_path
\* The columns of the header, `Author` and `Quote`: the fields of Quote.
Columns == 2

\* The rows a quotes file can hold after its header: a row has one, two or
\* three fields and is, or is not, valid UTF-8.
Rows == [fields : 1..(Columns + 1), utf8 : BOOLEAN]

\* The file with n rows that all deserialize.
GoodFile(n) == [i \in 1..n |-> [fields |-> Columns, utf8 |-> TRUE]]

\* The reader over a file that was read to its end without a warning.
ReaderDone(n) ==
    [file |-> GoodFile(n), readable |-> TRUE, pos |-> n + 1, warnings |-> 0,
     pc |-> "done"]

\* What the iterator of `rdr.deserialize()` yields for a row: a Quote when the
\* row is valid UTF-8 and has as many fields as the header (the reader is not
\* flexible), an error otherwise.  `author` is an Option and `quote` a String,
\* so any two fields, empty or not, make a Quote.
Deserializes(row) == row.utf8 /\ row.fields = Columns

\* -------------------------------------------------------------------- Init
\* The state after ImpKing::summon(proxy, buffer, frames) returned Ok.
Init ==
    /\ \E n \in 0..MaxPool : frames = [i \in 1..n |-> i]
    /\ pool0 = frames
    /\ \E q \in 0..MaxQuotes : quotes = [i \in 1..q |-> i]
    /\ rdr = ReaderDone(Len(quotes))
    /\ app = AppAtRest
    /\ buffer \in 1..MaxBuffer
    /\ kingPc = "Idle"
    /\ imps = <<>>
    /\ chan = <<>>
    /\ rxOpen = TRUE
    /\ proxyOpen = TRUE
    /\ events = <<>>
    /\ oneshots = <<>>
    /\ nextFrame = MaxPool + 1
    /\ last = Op("summon", 0)

\* --------------------------------------------------------- ImpKing, spawning
\* The effect of spawn_imps(count): every Imp that imps(count) returns is moved
\* into a task of its own.
SpawnEffect(count) ==
    LET new == Imps(count)
    IN  /\ Len(imps) + count <= MaxImps
        /\ imps' = imps \o new
        /\ last' = [Op("spawn_imps", Len(imps)) EXCEPT
                        !.count = count, !.created = Len(new),
                        !.avail = Len(frames)]
        /\ UNCHANGED <<frames, pool0, quotes, rdr, buffer, app, chan, rxOpen, proxyOpen,
                       events, oneshots, nextFrame>>

\* ImpKing::spawn_imps(&self, count), called on its own.
SpawnImps(count) ==
    /\ kingPc = "Idle"
    /\ SpawnEffect(count)
    /\ UNCHANGED kingPc

\* A variant of reign that gives up with an error when spawn_imps has started
\* no task although imps were asked for.
ReignStrict(count) ==
    /\ kingPc = "Idle"
    /\ SpawnEffect(count)
    /\ kingPc' = IF count > 0 /\ Imps(count) = <<>> THEN "Failed" ELSE "Listening"

\* ImpKing::reign(&mut self, count): spawn_imps, then listen.
Reign(count) ==
    /\ kingPc = "Idle"
    /\ SpawnEffect(count)
    /\ kingPc' = "Listening"

\* ImpKing::listen(&mut self), called on its own: the king starts to receive.
Listen ==
    /\ kingPc = "Idle"
    /\ kingPc' = "Listening"
    /\ last' = Op("listen", 0)
    /\ UNCHANGED <<frames, pool0, quotes, rdr, buffer, app, imps, chan, rxOpen, proxyOpen,
                   events, oneshots, nextFrame>>

\* ------------------------------------------------------------ oneshot channels
\* oneshot::channel(): a channel created by imp w, nothing sent yet.
NewOneshot(w) == [owner |-> w, state |-> "open", value |-> <<>>, sends |-> 0]

\* The oneshot senders carried by the Filch messages of `msgs` are dropped
\* unused: their receivers resolve to an error.
DropTxs(os, msgs) ==
    [r \in DOMAIN os |->
        IF /\ os[r].state = "open"
           /\ \E i \in 1..Len(msgs) : msgs[i].type = "Filch" /\ msgs[i].tx = r
        THEN [os[r] EXCEPT !.state = "dropped"]
        ELSE os[r]]

\* ------------------------------------------------------------ ImpKing::listen
\* A variant of SendEvent that keeps a Filch away from the event loop.
SendEventNoFilch(hijinks) ==
    IF hijinks.type = "Filch" THEN events ELSE Append(events, hijinks)

\* `self.proxy.send_event(hijinks)?` with the event loop alive: the Hijinks,
\* whatever its variant, is queued as a user event.
SendEvent(hijinks) == Append(events, hijinks)

\* A variant of ListenStep in which the king answers a Filch himself, with up
\* to FRAMES frames popped from the reservoir.
ListenStepReplenish ==
    /\ kingPc = "Listening"
    /\ chan # <<>>
    /\ chan' = Tail(chan)
    /\ last' = [Op("recv", 0) EXCEPT !.msg = Head(chan), !.avail = Len(frames)]
    /\ IF Head(chan).type = "Filch"
       THEN LET n == IF Len(frames) < FRAMES THEN Len(frames) ELSE FRAMES
            IN  /\ frames' = SubSeq(frames, 1, Len(frames) - n)
                /\ oneshots' = [oneshots EXCEPT ![Head(chan).tx] =
                        [@ EXCEPT !.state = "sent", !.sends = @ + 1,
                                  !.value = SubSeq(frames, Len(frames) - n + 1,
                                                   Len(frames))]]
                /\ UNCHANGED <<events, kingPc>>
       ELSE /\ events' = Append(events, Head(chan))
            /\ UNCHANGED <<frames, kingPc, oneshots>>
    /\ UNCHANGED <<pool0, quotes, rdr, buffer, app, imps, rxOpen, proxyOpen, nextFrame>>

\* A variant of ListenStep in which the king ignores the error of send_event
\* and goes on receiving.
ListenStepIgnoreClosed ==
    /\ kingPc = "Listening"
    /\ chan # <<>>
    /\ chan' = Tail(chan)
    /\ last' = [Op("recv", 0) EXCEPT !.msg = Head(chan), !.avail = Len(frames)]
    /\ IF proxyOpen
       THEN /\ events' = SendEvent(Head(chan))
            /\ UNCHANGED oneshots
       ELSE /\ oneshots' = DropTxs(oneshots, <<Head(chan)>>)
            /\ UNCHANGED events
    /\ UNCHANGED <<kingPc, frames, pool0, quotes, rdr, buffer, app, imps, rxOpen, proxyOpen,
                   nextFrame>>

\* A variant of ListenStep in which the delivery to the event loop waits for
\* room: the king takes the next Hijinks only once the event loop has handled
\* the one before.
ListenStepBoundedRelay ==
    /\ kingPc = "Listening"
    /\ chan # <<>>
    /\ proxyOpen => events = <<>>
    /\ chan' = Tail(chan)
    /\ last' = [Op("recv", 0) EXCEPT !.msg = Head(chan), !.avail = Len(frames)]
    /\ IF proxyOpen
       THEN /\ events' = SendEvent(Head(chan))
            /\ UNCHANGED <<kingPc, oneshots>>
       ELSE /\ kingPc' = "Failed"
            /\ oneshots' = DropTxs(oneshots, <<Head(chan)>>)
            /\ UNCHANGED events
    /\ UNCHANGED <<frames, pool0, quotes, rdr, buffer, app, imps, rxOpen, proxyOpen, nextFrame>>

\* One turn of `while let Some(hijinks) = self.rx.recv().await`.
ListenStep ==
    /\ kingPc = "Listening"
    /\ chan # <<>>
    /\ chan' = Tail(chan)
    /\ last' = [Op("recv", 0) EXCEPT !.msg = Head(chan), !.avail = Len(frames)]
    /\ IF proxyOpen
       THEN /\ events' = SendEvent(Head(chan))
            /\ UNCHANGED <<kingPc, oneshots>>
       ELSE /\ kingPc' = "Failed"
            /\ oneshots' = DropTxs(oneshots, <<Head(chan)>>)
            /\ UNCHANGED events
    /\ UNCHANGED <<frames, pool0, quotes, rdr, buffer, app, imps, rxOpen, proxyOpen, nextFrame>>

\* The king is dropped after listen failed: the receiver closes and the queued
\* Hijinks are dropped with it.
DropKing ==
    /\ kingPc = "Failed"
    /\ kingPc' = "Dropped"
    /\ rxOpen' = FALSE
    /\ chan' = <<>>
    /\ oneshots' = DropTxs(oneshots, chan)
    /\ last' = Op("drop_king", 0)
    /\ UNCHANGED <<frames, pool0, quotes, rdr, buffer, app, imps, proxyOpen, events, nextFrame>>

\* ------------------------------------------------------------------ the Imp
\* The Hijinks an imp builds.  `from` and `seq` are the sender and the position
\* of the message among the sender's messages; they are bookkeeping of the model.
MeddleMsg(w, act, frame) ==
    [NoMsg EXCEPT !.type = "Meddle", !.act = act, !.frame = frame, !.from = w]
VandalizeMsg(w, q) == [NoMsg EXCEPT !.type = "Vandalize", !.quote = q, !.from = w]
FilchMsg(w, tx) == [NoMsg EXCEPT !.type = "Filch", !.tx = tx, !.from = w]

\* The imp is at the top of the loop of hijinks and may start another message.
\* SendCap caps the Hijinks an imp gets into the mpsc channel: MaxSends each
\* in a cohort of MaxImps, one more for every imp the cohort is short of that;
\* with the receiver gone no send succeeds, and the imp goes on to its last,
\* failing one.
SendCap == MaxSends + (MaxImps - Len(imps))

AtLoop(w) ==
    /\ w \in 1..Len(imps)
    /\ imps[w].pc = "loop"
    /\ (imps[w].sent < SendCap \/ ~rxOpen)

Others == <<frames, pool0, quotes, rdr, buffer, app, kingPc, rxOpen, proxyOpen, events, nextFrame>>

\* A variant of Instigate in which the imps share the king's reservoir: the
\* frame of the NewWindow Meddle is popped from there.
InstigateShared(w) ==
    /\ AtLoop(w)
    /\ frames # <<>>
    /\ frames' = Front(frames)
    /\ imps' = [imps EXCEPT ![w].msg = MeddleMsg(w, "NewWindow", Last(frames)),
                            ![w].pc = "send"]
    /\ last' = Op("instigate", w)
    /\ UNCHANGED <<chan, oneshots, pool0, quotes, rdr, buffer, app, kingPc, rxOpen,
                   proxyOpen, events, nextFrame>>

\* A variant of Instigate in which the frame of the NewWindow Meddle is a
\* clone of the imp's last frame, which stays in the vector.
InstigateClone(w) ==
    /\ AtLoop(w)
    /\ imps[w].frames # <<>>
    /\ imps' = [imps EXCEPT ![w].msg = MeddleMsg(w, "NewWindow", Last(imps[w].frames)),
                            ![w].pc = "send"]
    /\ last' = Op("instigate", w)
    /\ UNCHANGED <<chan, oneshots>>
    /\ UNCHANGED Others

\* Imp::instigate with a frame left: `self.frames.pop()` yields the last frame,
\* which goes into a NewWindow Meddle; the imp then awaits the send.
Instigate(w) ==
    /\ AtLoop(w)
    /\ imps[w].frames # <<>>
    /\ imps' = [imps EXCEPT ![w].frames = Front(@),
                            ![w].msg = MeddleMsg(w, "NewWindow", Last(imps[w].frames)),
                            ![w].pc = "send"]
    /\ last' = Op("instigate", w)
    /\ UNCHANGED <<chan, oneshots>>
    /\ UNCHANGED Others

\* A variant of Imp::filch in which an imp that has made a oneshot channel
\* before puts the sender of that channel into its next Filch again.
FilchReuse(w) ==
    /\ AtLoop(w)
    /\ imps[w].frames = <<>>
    /\ LET mine == {r \in DOMAIN oneshots : oneshots[r].owner = w}
           old == CHOOSE r \in mine : \A q \in mine : q <= r
       IN  IF mine = {}
           THEN /\ oneshots' = Append(oneshots, NewOneshot(w))
                /\ imps' = [imps EXCEPT
                              ![w].msg = FilchMsg(w, Len(oneshots) + 1),
                              ![w].rx = Len(oneshots) + 1,
                              ![w].pc = "send"]
           ELSE /\ oneshots' = [oneshots EXCEPT ![old].state = "open"]
                /\ imps' = [imps EXCEPT ![w].msg = FilchMsg(w, old),
                                        ![w].rx = old,
                                        ![w].pc = "send"]
    /\ last' = Op("filch", w)
    /\ UNCHANGED chan
    /\ UNCHANGED Others

\* A variant of Imp::filch that is called whatever the imp still holds.
FilchEager(w) ==
    /\ AtLoop(w)
    /\ oneshots' = Append(oneshots, NewOneshot(w))
    /\ imps' = [imps EXCEPT ![w].msg = FilchMsg(w, Len(oneshots) + 1),
                            ![w].rx = Len(oneshots) + 1,
                            ![w].pc = "send"]
    /\ last' = Op("filch", w)
    /\ UNCHANGED chan
    /\ UNCHANGED Others

\* Imp::instigate without a frame calls Imp::filch: a oneshot channel is
\* created, its sender goes into a Filch, the imp awaits the send.
Filch(w) ==
    /\ AtLoop(w)
    /\ imps[w].frames = <<>>
    /\ oneshots' = Append(oneshots, NewOneshot(w))
    /\ imps' = [imps EXCEPT ![w].msg = FilchMsg(w, Len(oneshots) + 1),
                            ![w].rx = Len(oneshots) + 1,
                            ![w].pc = "send"]
    /\ last' = Op("filch", w)
    /\ UNCHANGED chan
    /\ UNCHANGED Others

\* A variant of Imp::spoil that takes a frame off the vector, when there is
\* one, and puts it into the Meddle.
SpoilPops(w) ==
    /\ AtLoop(w)
    /\ imps' = [imps EXCEPT
                  ![w].msg = MeddleMsg(w, "CloseWindow",
                                 IF imps[w].frames = <<>> THEN NoFrame
                                 ELSE Last(imps[w].frames)),
                  ![w].frames = IF @ = <<>> THEN @ ELSE Front(@),
                  ![w].pc = "send"]
    /\ last' = Op("spoil", w)
    /\ UNCHANGED <<chan, oneshots>>
    /\ UNCHANGED Others

\* Imp::spoil: a CloseWindow Meddle without a frame.
Spoil(w) ==
    /\ AtLoop(w)
    /\ imps' = [imps EXCEPT ![w].msg = MeddleMsg(w, "CloseWindow", NoFrame),
                            ![w].pc = "send"]
    /\ last' = Op("spoil", w)
    /\ UNCHANGED <<chan, oneshots>>
    /\ UNCHANGED Others

\* Imp::vandalize is entered: the imp starts to roll for an index.
Vandalize(w) ==
    /\ AtLoop(w)
    /\ imps' = [imps EXCEPT ![w].pc = "roll"]
    /\ last' = Op("vandalize", w)
    /\ UNCHANGED <<chan, oneshots>>
    /\ UNCHANGED Others

\* A variant of Roll whose test is `trial <= self.quotes.len()`: the trial one
\* past the last index is accepted too, and what the Vandalize then carries is
\* no quote of the catalog.
RollOffByOne(w, trial) ==
    /\ w \in 1..Len(imps)
    /\ imps[w].pc = "roll"
    /\ IF trial <= Len(quotes)
       THEN imps' = [imps EXCEPT
                       ![w].msg = VandalizeMsg(w, IF trial < Len(quotes)
                                                  THEN quotes[trial + 1] ELSE 0),
                       ![w].pc = "send"]
       ELSE UNCHANGED imps
    /\ last' = [Op("roll", w) EXCEPT !.count = trial]
    /\ UNCHANGED <<chan, oneshots>>
    /\ UNCHANGED Others

\* A variant of Roll that gives up on an empty catalog: vandalize returns Ok
\* after its pause without having sent anything.
RollGivesUp(w, trial) ==
    /\ w \in 1..Len(imps)
    /\ imps[w].pc = "roll"
    /\ IF trial < Len(quotes)
       THEN imps' = [imps EXCEPT ![w].msg = VandalizeMsg(w, quotes[trial + 1]),
                                 ![w].pc = "send"]
       ELSE IF quotes = <<>>
            THEN imps' = [imps EXCEPT ![w].pc = "pause"]
            ELSE UNCHANGED imps
    /\ last' = [Op("roll", w) EXCEPT !.count = trial]
    /\ UNCHANGED <<chan, oneshots>>
    /\ UNCHANGED Others

\* One turn of `while !set`: the trial is accepted when it is below the number
\* of quotes, and the quote at that index goes into a Vandalize;
\* `last.count` keeps the trial drawn.
Roll(w, trial) ==
    /\ w \in 1..Len(imps)
    /\ imps[w].pc = "roll"
    /\ IF trial < Len(quotes)
       THEN imps' = [imps EXCEPT ![w].msg = VandalizeMsg(w, quotes[trial + 1]),
                                 ![w].pc = "send"]
       ELSE UNCHANGED imps
    /\ last' = [Op("roll", w) EXCEPT !.count = trial]
    /\ UNCHANGED <<chan, oneshots>>
    /\ UNCHANGED Others

\* A variant of Enqueue that puts the message at the front of the queue.
EnqueueFront(q, m) == <<m>> \o q

\* mpsc::Sender::send with the receiver alive: the message joins the back of
\* the queue once there is room.
Enqueue(q, m) == Append(q, m)

\* A variant of Send after which the imp skips its pause and is back at the
\* top of its loop at once.
SendNoPause(w) ==
    /\ w \in 1..Len(imps)
    /\ imps[w].pc = "send"
    /\ rxOpen
    /\ Len(chan) < buffer
    /\ chan' = Enqueue(chan, [imps[w].msg EXCEPT !.seq = imps[w].sent + 1])
    /\ imps' = [imps EXCEPT ![w].msg = NoMsg,
                            ![w].sent = @ + 1,
                            ![w].pc = IF imps[w].msg.type = "Filch"
                                      THEN "await" ELSE "loop"]
    /\ last' = Op("send", w)
    /\ UNCHANGED oneshots
    /\ UNCHANGED Others

\* A variant of Send in which the imp holds a proxy of its own and hands its
\* Hijinks to the event loop itself.
SendDirect(w) ==
    /\ w \in 1..Len(imps)
    /\ imps[w].pc = "send"
    /\ proxyOpen
    /\ events' = Append(events, [imps[w].msg EXCEPT !.seq = imps[w].sent + 1])
    /\ imps' = [imps EXCEPT ![w].msg = NoMsg,
                            ![w].sent = @ + 1,
                            ![w].pc = IF imps[w].msg.type = "Filch"
                                      THEN "await" ELSE "pause"]
    /\ last' = Op("send", w)
    /\ UNCHANGED <<chan, oneshots, frames, pool0, quotes, rdr, buffer, app, kingPc,
                   rxOpen, proxyOpen, nextFrame>>

\* A variant of Send for an unbounded channel: the send completes whether or
\* not the queue has room.
SendUnbounded(w) ==
    /\ w \in 1..Len(imps)
    /\ imps[w].pc = "send"
    /\ rxOpen
    /\ chan' = Enqueue(chan, [imps[w].msg EXCEPT !.seq = imps[w].sent + 1])
    /\ imps' = [imps EXCEPT ![w].msg = NoMsg,
                            ![w].sent = @ + 1,
                            ![w].pc = IF imps[w].msg.type = "Filch"
                                      THEN "await" ELSE "pause"]
    /\ last' = Op("send", w)
    /\ UNCHANGED oneshots
    /\ UNCHANGED Others

\* `self.tx.send(..).await` completes.  After a Filch the imp awaits the reply,
\* after anything else it pauses.
Send(w) ==
    /\ w \in 1..Len(imps)
    /\ imps[w].pc = "send"
    /\ rxOpen
    /\ Len(chan) < buffer
    /\ chan' = Enqueue(chan, [imps[w].msg EXCEPT !.seq = imps[w].sent + 1])
    /\ imps' = [imps EXCEPT ![w].msg = NoMsg,
                            ![w].sent = @ + 1,
                            ![w].pc = IF imps[w].msg.type = "Filch"
                                      THEN "await" ELSE "pause"]
    /\ last' = Op("send", w)
    /\ UNCHANGED oneshots
    /\ UNCHANGED Others

\* A variant of SendErr in which an imp whose task ends hands the frames it
\* still holds back to the king's reservoir.
SendErrReturns(w) ==
    /\ w \in 1..Len(imps)
    /\ imps[w].pc = "send"
    /\ ~rxOpen
    /\ imps' = [imps EXCEPT ![w].msg = NoMsg,
                            ![w].frames = IF imps[w].msg.type = "Filch"
                                          THEN @ ELSE <<>>,
                            ![w].pc = IF imps[w].msg.type = "Filch"
                                      THEN "await" ELSE "exited"]
    /\ frames' = IF imps[w].msg.type = "Filch"
                 THEN frames ELSE frames \o imps[w].frames
    /\ oneshots' = DropTxs(oneshots, <<imps[w].msg>>)
    /\ last' = Op("send_err", w)
    /\ UNCHANGED chan
    /\ UNCHANGED <<pool0, quotes, rdr, buffer, app, kingPc, rxOpen, proxyOpen,
                   events, nextFrame>>

\* A variant of SendErr in which every caller throws the error of the send
\* away, as filch does, and carries on.
SendErrIgnored(w) ==
    /\ w \in 1..Len(imps)
    /\ imps[w].pc = "send"
    /\ ~rxOpen
    /\ imps' = [imps EXCEPT ![w].msg = NoMsg,
                            ![w].pc = IF imps[w].msg.type = "Filch"
                                      THEN "await" ELSE "pause"]
    /\ oneshots' = DropTxs(oneshots, <<imps[w].msg>>)
    /\ last' = Op("send_err", w)
    /\ UNCHANGED chan
    /\ UNCHANGED Others

\* `self.tx.send(..).await` fails because the receiver is gone; the message is
\* dropped.  spoil, instigate and vandalize return the error, the task ends;
\* filch ignores it (`let _ =`) and goes on to await the reply.
SendErr(w) ==
    /\ w \in 1..Len(imps)
    /\ imps[w].pc = "send"
    /\ ~rxOpen
    /\ imps' = [imps EXCEPT ![w].msg = NoMsg,
                            ![w].pc = IF imps[w].msg.type = "Filch"
                                      THEN "await" ELSE "exited"]
    /\ oneshots' = DropTxs(oneshots, <<imps[w].msg>>)
    /\ last' = Op("send_err", w)
    /\ UNCHANGED chan
    /\ UNCHANGED Others

\* A variant of AwaitedRx in which the imps share their replies: an imp takes
\* whatever reply is ready.
AnyReadyRx(w) ==
    IF \E r \in DOMAIN oneshots : oneshots[r].state = "sent"
    THEN CHOOSE r \in DOMAIN oneshots : oneshots[r].state = "sent"
    ELSE imps[w].rx

\* The channel an imp awaits in `rx.await`: the receiver of the oneshot
\* channel it created in this call of filch.
AwaitedRx(w) == imps[w].rx

\* A variant of Recv in which the imp takes the reply and ends its task.
RecvThenExit(w) ==
    /\ w \in 1..Len(imps)
    /\ imps[w].pc = "await"
    /\ AwaitedRx(w) \in DOMAIN oneshots
    /\ oneshots[AwaitedRx(w)].state = "sent"
    /\ imps' = [imps EXCEPT ![w].frames = oneshots[AwaitedRx(w)].value,
                            ![w].rx = NoTx,
                            ![w].pc = "exited"]
    /\ oneshots' = [oneshots EXCEPT ![AwaitedRx(w)].state = "taken"]
    /\ last' = [Op("recv_reply", w) EXCEPT !.count = AwaitedRx(w)]
    /\ UNCHANGED chan
    /\ UNCHANGED Others

\* A variant of Recv in which the imp takes the reply off its channel and
\* keeps the vector it had.
RecvKeepsOld(w) ==
    /\ w \in 1..Len(imps)
    /\ imps[w].pc = "await"
    /\ AwaitedRx(w) \in DOMAIN oneshots
    /\ oneshots[AwaitedRx(w)].state = "sent"
    /\ imps' = [imps EXCEPT ![w].rx = NoTx,
                            ![w].pc = "pause"]
    /\ oneshots' = [oneshots EXCEPT ![AwaitedRx(w)].state = "taken"]
    /\ last' = [Op("recv_reply", w) EXCEPT !.count = AwaitedRx(w)]
    /\ UNCHANGED chan
    /\ UNCHANGED Others

\* `let frames = rx.await?; self.frames = frames;`
Recv(w) ==
    /\ w \in 1..Len(imps)
    /\ imps[w].pc = "await"
    /\ AwaitedRx(w) \in DOMAIN oneshots
    /\ oneshots[AwaitedRx(w)].state = "sent"
    /\ imps' = [imps EXCEPT ![w].frames = oneshots[AwaitedRx(w)].value,
                            ![w].rx = NoTx,
                            ![w].pc = "pause"]
    /\ oneshots' = [oneshots EXCEPT ![AwaitedRx(w)].state = "taken"]
    /\ last' = [Op("recv_reply", w) EXCEPT !.count = AwaitedRx(w)]
    /\ UNCHANGED chan
    /\ UNCHANGED Others

\* A variant of RecvErr in which the error of one imp ends the task of every
\* imp.
RecvErrAll(w) ==
    /\ w \in 1..Len(imps)
    /\ imps[w].pc = "await"
    /\ oneshots[imps[w].rx].state = "dropped"
    /\ imps' = [v \in DOMAIN imps |->
                    IF v = w THEN [imps[v] EXCEPT !.rx = NoTx, !.pc = "exited"]
                             ELSE [imps[v] EXCEPT !.pc = "exited"]]
    /\ last' = Op("recv_err", w)
    /\ UNCHANGED <<chan, oneshots, frames, pool0, quotes, rdr, buffer, app, kingPc,
                   rxOpen, proxyOpen, events, nextFrame>>

\* A variant of RecvErr in which the wait for the reply also gives up, with an
\* error, while the sender of the oneshot channel is still held.
RecvErrTimeout(w) ==
    /\ w \in 1..Len(imps)
    /\ imps[w].pc = "await"
    /\ oneshots[imps[w].rx].state \in {"open", "dropped"}
    /\ imps' = [imps EXCEPT ![w].rx = NoTx, ![w].pc = "exited"]
    /\ last' = Op("recv_err", w)
    /\ UNCHANGED <<chan, oneshots>>
    /\ UNCHANGED Others

\* A variant of RecvErr in which the imp swallows the error and goes back to
\* the top of its loop, where it may call filch again.
RecvErrRetry(w) ==
    /\ w \in 1..Len(imps)
    /\ imps[w].pc = "await"
    /\ oneshots[imps[w].rx].state = "dropped"
    /\ imps' = [imps EXCEPT ![w].rx = NoTx, ![w].pc = "loop"]
    /\ last' = Op("recv_err", w)
    /\ UNCHANGED <<chan, oneshots>>
    /\ UNCHANGED Others

\* `rx.await?` fails because the sender was dropped: filch returns the error
\* and the task ends.
RecvErr(w) ==
    /\ w \in 1..Len(imps)
    /\ imps[w].pc = "await"
    /\ oneshots[imps[w].rx].state = "dropped"
    /\ imps' = [imps EXCEPT ![w].rx = NoTx, ![w].pc = "exited"]
    /\ last' = Op("recv_err", w)
    /\ UNCHANGED <<chan, oneshots>>
    /\ UNCHANGED Others

\* Imp::pause: `let pause: u16 = rand::random();` and a sleep of
\* Duration::from_millis(pause as u64); then back to the top of the loop.
\* `last.count` keeps the milliseconds slept.
Pause(w) ==
    /\ w \in 1..Len(imps)
    /\ imps[w].pc = "pause"
    /\ imps' = [imps EXCEPT ![w].pc = "loop"]
    /\ \E pause \in PauseDraws : last' = [Op("pause", w) EXCEPT !.count = pause]
    /\ UNCHANGED <<chan, oneshots>>
    /\ UNCHANGED Others

\* ------------------------------------------------------------------ the App
\* A variant of FreshFrames that makes one frame more than it was asked for.
FreshFramesGenerous == [i \in 1..(FRAMES + 1) |-> nextFrame + i - 1]

\* App::frames(FRAMES) returning Some: FRAMES frames generated on the spot.
FreshFrames == [i \in 1..FRAMES |-> nextFrame + i - 1]

\* `let tx = filch.dissolve()`: the sender the App answers on.
ReplyTx(ev) == ev.tx

AppOthers == <<frames, pool0, quotes, rdr, buffer, app, kingPc, imps, chan, rxOpen, proxyOpen>>

\* user_event with a Meddle or a Vandalize: the event is consumed.
UserEvent ==
    /\ events # <<>>
    /\ Head(events).type # "Filch"
    /\ events' = Tail(events)
    /\ last' = Op("user_event", 0)
    /\ UNCHANGED <<oneshots, nextFrame>>
    /\ UNCHANGED AppOthers

\* user_event with a Filch while App::frames yields frames:
\* `tx.send(frames)`.
UserEventFilch ==
    /\ events # <<>>
    /\ Head(events).type = "Filch"
    /\ events' = Tail(events)
    /\ oneshots' = [oneshots EXCEPT ![ReplyTx(Head(events))] =
                        [@ EXCEPT !.state = "sent", !.value = FreshFrames,
                                  !.sends = @ + 1]]
    /\ nextFrame' = nextFrame + FRAMES
    /\ last' = Op("user_event_filch", 0)
    /\ UNCHANGED AppOthers

\* user_event with a Filch while App::frames yields None: the Filch and the
\* sender in it are dropped.
UserEventNoFrames ==
    /\ events # <<>>
    /\ Head(events).type = "Filch"
    /\ events' = Tail(events)
    /\ oneshots' = DropTxs(oneshots, <<Head(events)>>)
    /\ last' = Op("user_event_none", 0)
    /\ UNCHANGED nextFrame
    /\ UNCHANGED AppOthers

\* The event loop exits: the proxy is closed from now on, the queued events
\* are dropped.
CloseProxy ==
    /\ proxyOpen
    /\ proxyOpen' = FALSE
    /\ events' = <<>>
    /\ oneshots' = DropTxs(oneshots, events)
    /\ last' = Op("close_proxy", 0)
    /\ UNCHANGED <<frames, pool0, quotes, rdr, buffer, app, kingPc, imps, chan, rxOpen, nextFrame>>

\* -------------------------------------------------------------- specification
Next ==
    \/ \E count \in 0..MaxImps : SpawnImps(count)
    \/ \E count \in 0..MaxImps : Reign(count)
    \/ Listen
    \/ ListenStep
    \/ DropKing
    \/ \E w \in 1..MaxImps : Instigate(w)
    \/ \E w \in 1..MaxImps : Filch(w)
    \/ \E w \in 1..MaxImps : Spoil(w)
    \/ \E w \in 1..MaxImps : Vandalize(w)
    \/ \E w \in 1..MaxImps : \E trial \in 0..MaxTrial : Roll(w, trial)
    \/ \E w \in 1..MaxImps : Send(w)
    \/ \E w \in 1..MaxImps : SendErr(w)
    \/ \E w \in 1..MaxImps : Recv(w)
    \/ \E w \in 1..MaxImps : RecvErr(w)
    \/ \E w \in 1..MaxImps : Pause(w)
    \/ UserEvent
    \/ UserEventFilch
    \/ UserEventNoFrames
    \/ CloseProxy

Spec == Init /\ [][Next]_vars

\* The king alone: the calls of spawn_imps, reign and listen, in any order the
\* borrow of `self` allows, with no imp taking a step.
SpawnNext ==
    \/ \E count \in 0..MaxImps : SpawnImps(count)
    \/ \E count \in 0..MaxImps : Reign(count)
    \/ Listen

SpawnSpec == Init /\ [][SpawnNext]_vars

\* ------------------------------------------------------- Quotes::from_path
\* summon has just called Quotes::from_path(path): nothing of the king exists
\* yet, the file at `path` can or cannot be opened and holds any rows.
FromPathInit ==
    /\ \E n \in 0..MaxRows : \E f \in [1..n -> Rows] : \E r \in BOOLEAN :
          rdr = [file |-> f, readable |-> r, pos |-> 1, warnings |-> 0,
                 pc |-> "open"]
    /\ quotes = <<>>
    /\ app = AppAtRest
    /\ frames = <<>>
    /\ pool0 = <<>>
    /\ buffer = 1
    /\ kingPc = "Summoning"
    /\ imps = <<>>
    /\ chan = <<>>
    /\ rxOpen = FALSE
    /\ proxyOpen = TRUE
    /\ events = <<>>
    /\ oneshots = <<>>
    /\ nextFrame = MaxPool + 1
    /\ last = Op("from_path", 0)

FromPathOthers == <<frames, pool0, buffer, app, kingPc, imps, chan, rxOpen,
                    proxyOpen, events, oneshots, nextFrame>>

\* A variant of OpenFile in which a file that cannot be opened counts as a
\* file without rows.
OpenFileLenient ==
    /\ rdr.pc = "open"
    /\ rdr' = [rdr EXCEPT !.pc = IF rdr.readable THEN "rows" ELSE "done"]
    /\ last' = Op("open", 0)
    /\ UNCHANGED quotes
    /\ UNCHANGED FromPathOthers

\* `let file = fs::File::open(path)?`: an error ends from_path.
OpenFile ==
    /\ rdr.pc = "open"
    /\ rdr' = [rdr EXCEPT !.pc = IF rdr.readable THEN "rows" ELSE "failed"]
    /\ last' = Op("open", 0)
    /\ UNCHANGED quotes
    /\ UNCHANGED FromPathOthers

\* A variant of DeserializeRow in which a row that does not deserialize ends
\* from_path with the error.
DeserializeRowStrict ==
    /\ rdr.pc = "rows"
    /\ rdr.pos <= Len(rdr.file)
    /\ IF Deserializes(rdr.file[rdr.pos])
       THEN /\ quotes' = Append(quotes, rdr.pos)
            /\ rdr' = [rdr EXCEPT !.pos = @ + 1]
       ELSE /\ rdr' = [rdr EXCEPT !.pos = @ + 1, !.pc = "failed"]
            /\ UNCHANGED quotes
    /\ last' = Op("row", 0)
    /\ UNCHANGED FromPathOthers

\* One turn of `for result in rdr.deserialize()`: a Quote is pushed, an error
\* is logged as a warning; either way the loop goes on with the next row.
\* A Quote is known by the number of its row.
DeserializeRow ==
    /\ rdr.pc = "rows"
    /\ rdr.pos <= Len(rdr.file)
    /\ IF Deserializes(rdr.file[rdr.pos])
       THEN /\ quotes' = Append(quotes, rdr.pos)
            /\ rdr' = [rdr EXCEPT !.pos = @ + 1]
       ELSE /\ rdr' = [rdr EXCEPT !.pos = @ + 1, !.warnings = @ + 1]
            /\ UNCHANGED quotes
    /\ last' = Op("row", 0)
    /\ UNCHANGED FromPathOthers

\* The iterator is at its end: `Ok(Self(quotes))`.
FromPathOk ==
    /\ rdr.pc = "rows"
    /\ rdr.pos > Len(rdr.file)
    /\ rdr' = [rdr EXCEPT !.pc = "done"]
    /\ last' = Op("from_path_ok", 0)
    /\ UNCHANGED quotes
    /\ UNCHANGED FromPathOthers

FromPathNext == OpenFile \/ DeserializeRow \/ FromPathOk

FromPathSpec == FromPathInit /\ [][FromPathNext]_vars

\* ----------------------------------------------------------- ImpKing::summon
\* from_path returned the catalog: summon makes the mpsc channel with the
\* buffer it was given and returns the king, who holds the frames it was
\* given, the catalog, the receiver and a sender.
SummonOk ==
    /\ kingPc = "Summoning"
    /\ rdr.pc = "done"
    /\ \E n \in 0..MaxPool : frames' = [i \in 1..n |-> i]
    /\ pool0' = frames'
    /\ buffer' \in 1..MaxBuffer
    /\ rxOpen' = TRUE
    /\ kingPc' = "Idle"
    /\ last' = Op("summon", 0)
    /\ UNCHANGED <<quotes, rdr, app, imps, chan, proxyOpen, events, oneshots,
                   nextFrame>>

\* `Quotes::from_path(path.into())?` with an error: summon returns it before
\* the channel is made.
SummonErr ==
    /\ kingPc = "Summoning"
    /\ rdr.pc = "failed"
    /\ kingPc' = "SummonFailed"
    /\ last' = Op("summon_err", 0)
    /\ UNCHANGED <<frames, pool0, quotes, rdr, buffer, app, imps, chan, rxOpen,
                   proxyOpen, events, oneshots, nextFrame>>

\* summon from its call to its return, and what the caller can do with the
\* king it got.
SummonNext ==
    \/ OpenFile
    \/ DeserializeRow
    \/ FromPathOk
    \/ SummonOk
    \/ SummonErr
    \/ \E count \in 0..MaxImps : SpawnImps(count)
    \/ \E count \in 0..MaxImps : Reign(count)
    \/ Listen

SummonSpec == FromPathInit /\ [][SummonNext]_vars

\* Any step of the task of imp w.
ImpStep(w) ==
    \/ Instigate(w)
    \/ Filch(w)
    \/ Spoil(w)
    \/ Vandalize(w)
    \/ \E trial \in 0..MaxTrial : Roll(w, trial)
    \/ Send(w)
    \/ SendErr(w)
    \/ Recv(w)
    \/ RecvErr(w)
    \/ Pause(w)

\* A turn of `while !set` in which the u16 drawn is an index of the catalog.
RollAccepted(w) == \E trial \in 0..MaxTrial : trial < Len(quotes) /\ Roll(w, trial)

\* Any user_event of the App.
AppStep == UserEvent \/ UserEventFilch \/ UserEventNoFrames

\* The scheduling the runtime gives: a task that can go on does go on (tokio
\* polls every woken task, the event loop handles every queued user event),
\* the caller of reign drops the king once reign has returned, and a random
\* draw that can fall inside the catalog eventually does.  Nothing obliges the
\* caller to spawn or to listen, nor the event loop to exit.
Fairness ==
    /\ WF_vars(ListenStep)
    /\ WF_vars(DropKing)
    /\ WF_vars(AppStep)
    /\ \A w \in 1..MaxImps : WF_vars(ImpStep(w))
    /\ \A w \in 1..MaxImps : WF_vars(RollAccepted(w))

FairSpec == Init /\ [][Next]_vars /\ Fairness

\* The king reigning over a single imp: reign(1), the turns of listen, the
\* steps of the one imp, the App and the exit of the event loop.
OneImpNext ==
    \/ Reign(1)
    \/ ListenStep
    \/ DropKing
    \/ Instigate(1)
    \/ Filch(1)
    \/ Spoil(1)
    \/ Vandalize(1)
    \/ \E trial \in 0..MaxTrial : Roll(1, trial)
    \/ Send(1)
    \/ SendErr(1)
    \/ Recv(1)
    \/ RecvErr(1)
    \/ Pause(1)
    \/ UserEvent
    \/ UserEventFilch
    \/ UserEventNoFrames
    \/ CloseProxy

OneImpSpec == Init /\ [][OneImpNext]_vars

\* The same with the scheduling of the runtime for the task of the imp: a
\* task that can go on does go on.
OneImpFairSpec == OneImpSpec /\ WF_vars(ImpStep(1))

\* ------------------------------------------- From<MonitorHandle> for Frame
\* The number of values of an unsigned integer of the Frame arithmetic.
WordModulus == 2 ^ WordBits

\* a - b on unsigned integers overflows when b is the larger; a build with
\* overflow checks panics there, a build without them wraps around.
SubOverflows(a, b) == a < b
WrappingSub(a, b) == (a - b) % WordModulus

\* rng.gen_range(lo..hi): a value of the half-open range, here one of the two
\* least or the two largest; an empty range (no value) makes gen_range panic.
GenRange(lo, hi) == {v \in lo..(hi - 1) : v <= lo + 1 \/ v >= hi - 2}

\* A variant of Clip that forgets the size of the Frame.
ClipWholeMonitor(span, size) == span

\* clip_x and clip_y: the room left on the monitor beside a Frame of that
\* size.
Clip(span, size) == WrappingSub(span, size)

\* Frame::from(monitor) has just read monitor.size(): any size a monitor
\* reports, in a build with or without overflow checks.
FrameInit ==
    /\ \E width \in 0..MaxSide : \E height \in 0..MaxSide : \E checks \in BOOLEAN :
          app = [AppAtRest EXCEPT !.monitor_size = [width |-> width, height |-> height],
                                  !.checks = checks, !.pc = "size"]
    /\ quotes = <<>>
    /\ rdr = [file |-> <<>>, readable |-> FALSE, pos |-> 1, warnings |-> 0,
              pc |-> "done"]
    /\ frames = <<>>
    /\ pool0 = <<>>
    /\ buffer = 1
    /\ kingPc = "Summoning"
    /\ imps = <<>>
    /\ chan = <<>>
    /\ rxOpen = FALSE
    /\ proxyOpen = TRUE
    /\ events = <<>>
    /\ oneshots = <<>>
    /\ nextFrame = MaxPool + 1
    /\ last = Op("monitor_size", 0)

FrameOthers == <<frames, pool0, quotes, rdr, buffer, kingPc, imps, chan, rxOpen,
                 proxyOpen, events, oneshots, nextFrame>>

\* The width and the height of the Frame: each a gen_range over
\* MIN_SPAN..(side - MIN_SPAN).  The subtraction overflows for a side below
\* MIN_SPAN and the range is empty for a side up to twice MIN_SPAN.
GenSize ==
    /\ app.pc = "size"
    /\ LET W == app.monitor_size.width
           H == app.monitor_size.height
           widths == GenRange(MIN_SPAN, WrappingSub(W, MIN_SPAN))
           heights == GenRange(MIN_SPAN, WrappingSub(H, MIN_SPAN))
       IN  IF \/ app.checks /\ (SubOverflows(W, MIN_SPAN) \/ SubOverflows(H, MIN_SPAN))
              \/ widths = {}
              \/ heights = {}
           THEN app' = [app EXCEPT !.pc = "panic"]
           ELSE \E width \in widths : \E height \in heights :
                   app' = [app EXCEPT !.size = [width |-> width, height |-> height],
                                      !.pc = "position"]
    /\ last' = Op("gen_size", 0)
    /\ UNCHANGED FrameOthers

\* The position of the Frame: clip_x and clip_y, then a gen_range over
\* MIN_SPAN..clip_x and one over MIN_SPAN..clip_y, and the Frame is returned.
GenPosition ==
    /\ app.pc = "position"
    /\ LET W == app.monitor_size.width
           H == app.monitor_size.height
           clip_x == Clip(W, app.size.width)
           clip_y == Clip(H, app.size.height)
           xs == GenRange(MIN_SPAN, clip_x)
           ys == GenRange(MIN_SPAN, clip_y)
       IN  IF \/ app.checks /\ (SubOverflows(W, app.size.width)
                                \/ SubOverflows(H, app.size.height))
              \/ xs = {}
              \/ ys = {}
           THEN app' = [app EXCEPT !.pc = "panic"]
           ELSE \E x \in xs : \E y \in ys :
                   app' = [app EXCEPT !.position = [x |-> x, y |-> y],
                                      !.pc = "done"]
    /\ last' = Op("gen_position", 0)
    /\ UNCHANGED FrameOthers

FrameNext ==
    \/ GenSize
    \/ GenPosition

FrameSpec == FrameInit /\ [][FrameNext]_vars

\* ------------------------------------------- ApplicationHandler for App
\* The App as handed to run_app: no window yet, the event loop not resumed.
WindowsInit ==
    /\ app = AppAtRest
    /\ quotes = <<>>
    /\ rdr = [file |-> <<>>, readable |-> FALSE, pos |-> 1, warnings |-> 0,
              pc |-> "done"]
    /\ frames = <<>>
    /\ pool0 = <<>>
    /\ buffer = 1
    /\ kingPc = "Summoning"
    /\ imps = <<>>
    /\ chan = <<>>
    /\ rxOpen = FALSE
    /\ proxyOpen = TRUE
    /\ events = <<>>
    /\ oneshots = <<>>
    /\ nextFrame = MaxPool + 1
    /\ last = Op("run_app", 0)

\* App::request_window: the event loop creates a window at once, and a task
\* is spawned that will send its Lens to the App as Event::Lens.
RequestWindow(a) ==
    [a EXCEPT !.created = a.created + 1,
              !.requested = a.requested \cup {a.created + 1}]

\* The keys of the App's commands: the Act a key press translates to.
Acts == {"CloseWindow", "Exit", "NewWindow", "Be"}

\* App::act(act, id, event_loop).
Act(a, act, id) ==
    CASE act = "CloseWindow" -> [a EXCEPT !.windows = a.windows \ {id}]
      [] act = "Exit" -> [a EXCEPT !.windows = {}]
      [] act = "NewWindow" -> RequestWindow(a)
      [] act = "Be" -> a

\* resumed: the first window is requested.
Resumed ==
    /\ app.pc = "rest"
    /\ app' = [RequestWindow(app) EXCEPT !.pc = "running"]
    /\ last' = Op("resumed", 0)
    /\ UNCHANGED FrameOthers

\* user_event(Event::Lens(lens)): create_window enters the Lens in the table
\* under the id of its window.
UserEventLens(id) ==
    /\ app.pc = "running"
    /\ id \in app.requested
    /\ app' = [app EXCEPT !.windows = app.windows \cup {id},
                          !.requested = app.requested \ {id}]
    /\ last' = Op("create_window", id)
    /\ UNCHANGED FrameOthers

\* window_event(id, CloseRequested), for a window of the table (for any other
\* id the handler returns at once): the window leaves the table.
CloseRequested(id) ==
    /\ app.pc = "running"
    /\ id \in app.windows
    /\ app' = [app EXCEPT !.windows = app.windows \ {id}]
    /\ last' = Op("close_requested", id)
    /\ UNCHANGED FrameOthers

\* window_event(id, KeyboardInput) for a window of the table and a key press
\* that translates to an Act: keyboard_input hands the Act to App::act.
KeyboardInput(id, act) ==
    /\ app.pc = "running"
    /\ id \in app.windows
    /\ act = "NewWindow" => app.created < MaxWindows
    /\ app' = Act(app, act, id)
    /\ last' = Op(act, id)
    /\ UNCHANGED FrameOthers

\* about_to_wait: every Lens of the table is told; nothing else happens.
AboutToWait ==
    /\ app.pc = "running"
    /\ app' = app
    /\ last' = Op("about_to_wait", 0)
    /\ UNCHANGED FrameOthers

WindowsNext ==
    \/ Resumed
    \/ \E id \in 1..MaxWindows : UserEventLens(id)
    \/ \E id \in 1..MaxWindows : CloseRequested(id)
    \/ \E id \in 1..MaxWindows : \E act \in Acts : KeyboardInput(id, act)
    \/ AboutToWait

WindowsSpec == WindowsInit /\ [][WindowsNext]_vars

\* ------------------------------------------------------------------- claims
\* The Hijinks on their way to the App, oldest first: those queued in the event
\* loop, then those queued in the mpsc channel.
InFlight == events \o chan

\* The king is in his receive loop and has taken the Filch of channel r out
\* of the mpsc channel.
Received(r) ==
    /\ kingPc = "Listening"
    /\ \A i \in 1..Len(chan) : chan[i].tx # r
    /\ imps[oneshots[r].owner].msg.tx # r

\* C1: the frames in the reservoir plus the frames in the private vectors of
\* all imps are never more than the frames the king was summoned with.
C1_Conservation ==
    Len(frames) + SumLen(imps, Len(imps)) <= Len(pool0)

\* C2: no frame is in the reservoir and in an imp's private vector at the same
\* time, and no frame is in the private vectors of two imps.
C2_ExclusiveOwnership ==
    /\ \A w \in DOMAIN imps : Range(imps[w].frames) \cap Range(frames) = {}
    /\ \A w, v \in DOMAIN imps :
          w # v => Range(imps[w].frames) \cap Range(imps[v].frames) = {}

\* C3: when the value sent on a oneshot channel is received, it is the imp that
\* created the channel that leaves its await with exactly that value as its
\* frames, and no other imp changes in that step.
C3_DirectedReply ==
    [][\A r \in DOMAIN oneshots :
          (oneshots[r].state = "sent" /\ oneshots'[r].state = "taken") =>
              LET o == oneshots[r].owner
              IN  /\ imps[o].pc = "await"
                  /\ imps'[o].pc = "pause"
                  /\ imps'[o].frames = oneshots[r].value
                  /\ \A v \in DOMAIN imps : v # o => imps'[v] = imps[v]]_vars

\* C3 witness: an imp has just received its reply while another imp is still
\* awaiting the reply to a request of its own.
C3_Witness ==
    /\ last.op = "recv_reply"
    /\ \E v \in DOMAIN imps :
          /\ v # last.w
          /\ imps[v].pc = "await"
          /\ oneshots[imps[v].rx].state = "open"

\* C4 as claimed: after the king received a Filch the reservoir is smaller by
\* min(FRAMES, size before) frames and exactly that many frames were sent on
\* the channel of the Filch.
C4_KingReplenishes ==
    (last.op = "recv" /\ last.msg.type = "Filch") =>
        LET n == IF last.avail < FRAMES THEN last.avail ELSE FRAMES
        IN  /\ Len(frames) = last.avail - n
            /\ oneshots[last.msg.tx].state = "sent"
            /\ Len(oneshots[last.msg.tx].value) = n

\* C4 amended: after the king received a Filch the reservoir is what it was at
\* summon, nothing has been sent on the channel of the Filch, and the Filch is
\* the newest user event of the event loop (or, the event loop being gone, the
\* Filch was dropped and listen has failed).
C4_KingForwardsFilch ==
    (last.op = "recv" /\ last.msg.type = "Filch") =>
        /\ frames = pool0
        /\ Len(frames) = last.avail
        /\ oneshots[last.msg.tx].sends = 0
        /\ IF kingPc = "Listening"
           THEN /\ oneshots[last.msg.tx].state = "open"
                /\ events # <<>>
                /\ Last(events) = last.msg
           ELSE /\ kingPc = "Failed"
                /\ oneshots[last.msg.tx].state = "dropped"

\* C4 witness: the king, with frames in his reservoir, has just received a
\* Filch and goes on listening.
C4_Witness ==
    /\ last.op = "recv"
    /\ last.msg.type = "Filch"
    /\ kingPc = "Listening"
    /\ frames # <<>>

\* C5: while the king listens and the event loop lives, the channel of a Filch
\* the king has received is never left without a value for good (its sender
\* dropped unused), and no channel is ever sent on twice.
C5_AnsweredOnce ==
    \A r \in DOMAIN oneshots :
        /\ oneshots[r].sends <= 1
        /\ (proxyOpen /\ Received(r)) => oneshots[r].state # "dropped"

\* C7: of two Hijinks of the same imp on their way to the App, the one sent
\* first is ahead; and what the king has just received is the newest user
\* event of the event loop.
C7_FifoPerSender ==
    /\ \A i, j \in 1..Len(InFlight) :
          (i < j /\ InFlight[i].from = InFlight[j].from) =>
              InFlight[i].seq < InFlight[j].seq
    /\ (last.op = "recv" /\ kingPc = "Listening") =>
          (events # <<>> /\ Last(events) = last.msg)

\* C7 witness: the event loop holds two Meddle or Vandalize events of one imp,
\* the first sent ahead of the second, with an event of another imp in between.
C7_Witness ==
    \E i, j, k \in 1..Len(events) :
        /\ i < k /\ k < j
        /\ events[i].from = events[j].from
        /\ events[k].from # events[i].from
        /\ events[i].type # "Filch"
        /\ events[j].type # "Filch"
        /\ events[i].seq < events[j].seq

C9_SpawnFailsFast ==
    last.op = "spawn_imps" =>
        /\ last.avail < last.count * FRAMES => last.created = 0
        /\ last.created \in {0, last.count}
        /\ Len(imps) = last.w + last.created
        /\ \A i \in (last.w + 1)..Len(imps) : Len(imps[i].frames) = FRAMES

\* C9 witness: a spawn_imps that asked for imps the reservoir could provision
\* only in part has created none.
C9_Witness ==
    /\ last.op = "spawn_imps"
    /\ last.count > 0
    /\ last.avail >= FRAMES
    /\ last.avail < last.count * FRAMES
    /\ last.created = 0

\* C10: a spawn_imps that creates imps creates count of them with FRAMES
\* frames each and leaves the reservoir smaller by count * FRAMES frames.
C10_SpawnDrainsPool ==
    (last.op = "spawn_imps" /\ last.created > 0) =>
        /\ last.created = last.count
        /\ \A i \in (last.w + 1)..Len(imps) : Len(imps[i].frames) = FRAMES
        /\ Len(frames) = last.avail - last.count * FRAMES

\* The operations an imp's task takes, those the king's task takes and those
\* the App takes, as recorded in `last`.
ImpOps == {"instigate", "filch", "spoil", "vandalize", "roll", "send",
           "send_err", "recv_reply", "recv_err", "pause"}
KingOps == {"spawn_imps", "listen", "recv", "drop_king"}
AppOps == {"user_event", "user_event_filch", "user_event_none", "close_proxy"}

\* C11: a step of an imp's task (building a NewWindow or CloseWindow Meddle, a
\* Vandalize or a Filch, sending it, receiving a reply, pausing, ending) leaves
\* the king's reservoir as it was; the reservoir changes, if at all, only in a
\* step of the king's task.
C11_SingleOwnerPool ==
    [][/\ last'.op \in ImpOps => frames' = frames
       /\ frames' # frames => last'.op \in KingOps]_vars

\* C11 witness: with frames in the king's reservoir, an imp has used up its
\* own frames, has asked for more and has just received them, and another imp
\* has ended.
C11_Witness ==
    /\ last.op = "recv_reply"
    /\ frames # <<>>
    /\ imps[last.w].frames # <<>>
    /\ \E v \in DOMAIN imps : imps[v].pc = "exited"

\* C12: a user event is added to the event loop only by a turn of the king's
\* receive loop, one event per turn, and it is the Hijinks the king took from
\* the mpsc channel in that turn; no step of an imp adds or removes an event,
\* however many imps are running.
C12_OnlyKingDelivers ==
    [][/\ last'.op \in ImpOps => events' = events
       /\ Len(events') > Len(events) =>
              /\ last'.op = "recv"
              /\ kingPc = "Listening"
              /\ chan # <<>>
              /\ events' = Append(events, Head(chan))]_vars

\* C12 witness: the king has just delivered a Hijinks of one imp while a
\* Hijinks of another imp is in the event loop, a third Hijinks is queued in
\* the mpsc channel and two imps are running.
C12_Witness ==
    /\ last.op = "recv"
    /\ kingPc = "Listening"
    /\ Len(events) >= 2
    /\ Last(events) = last.msg
    /\ \E i \in 1..Len(events) : events[i].from # last.msg.from
    /\ chan # <<>>
    /\ \E w, v \in DOMAIN imps :
          w # v /\ imps[w].pc # "exited" /\ imps[v].pc # "exited"

\* Every imp the king provisioned has ended its task.
AllExited == \A w \in DOMAIN imps : imps[w].pc = "exited"

\* C13: once the king is in his receive loop, every imp has ended and the mpsc
\* channel is empty, the receive loop comes to its end: listen returns and the
\* king is no longer listening.
C13_KingDrains ==
    (kingPc = "Listening" /\ imps # <<>> /\ AllExited /\ chan = <<>>)
        ~> (kingPc # "Listening")

\* listen has returned an error.
KingStopped == kingPc \in {"Failed", "Dropped"}

\* C14: a turn of the receive loop that finds the event loop gone delivers
\* nothing and makes listen return an error; from then on the king takes no
\* Hijinks out of the mpsc channel, no user event is added to the event loop
\* and the king never listens again.
C14_RelayClosedFatal ==
    [][/\ (last'.op = "recv" /\ ~proxyOpen) =>
              (kingPc' = "Failed" /\ events' = events)
       /\ KingStopped =>
              /\ kingPc' \in {"Failed", "Dropped"}
              /\ last'.op # "recv"
              /\ Len(events') <= Len(events)
              /\ chan' # chan =>
                    \/ last'.op = "send" /\ Front(chan') = chan
                    \/ last'.op = "drop_king" /\ chan' = <<>>]_vars

\* C14 witness: listen has failed on a Hijinks while another Hijinks was still
\* queued in the mpsc channel, and an imp has since sent one more; all of them
\* are still queued.
C14_Witness ==
    /\ kingPc = "Failed"
    /\ ~proxyOpen
    /\ last.op = "send"
    /\ Len(chan) >= 2

\* The task of imp w exists and has not ended; it has ended.
Running(w) == IF w \in DOMAIN imps THEN imps[w].pc # "exited" ELSE FALSE
Exited(w) == IF w \in DOMAIN imps THEN imps[w].pc = "exited" ELSE FALSE

\* C15: once listen has failed on the closed event loop, every imp still
\* running ends its task: none stays for ever in a send, in the wait for a
\* reply or anywhere else.
C15_CascadingShutdown ==
    \A w \in 1..MaxImps : (KingStopped /\ Running(w)) ~> Exited(w)

\* C16: the step in which the task of an imp ends (its send failed, or the
\* sender of its reply channel was dropped) changes no other imp, leaves the
\* king, the mpsc channel, its receiver and the event loop as they were, and
\* touches no reply channel of another imp: no sibling's send or wait for a
\* reply is made to fail by it.
C16_FailureIsolation ==
    [][\A w \in DOMAIN imps :
          (imps[w].pc # "exited" /\ imps'[w].pc = "exited") =>
              /\ last'.op \in {"send_err", "recv_err"}
              /\ last'.w = w
              /\ DOMAIN imps' = DOMAIN imps
              /\ \A v \in DOMAIN imps : v # w => imps'[v] = imps[v]
              /\ kingPc' = kingPc
              /\ chan' = chan
              /\ rxOpen' = rxOpen
              /\ events' = events
              /\ proxyOpen' = proxyOpen
              /\ \A r \in DOMAIN oneshots :
                    oneshots[r].owner # w => oneshots'[r] = oneshots[r]]_vars

\* C16 witness: an imp has just ended on a dropped reply channel while the king
\* listens, the event loop lives and another imp is awaiting a reply of its
\* own that can still come.
C16_Witness ==
    /\ last.op = "recv_err"
    /\ imps[last.w].pc = "exited"
    /\ kingPc = "Listening"
    /\ proxyOpen
    /\ \E v \in DOMAIN imps :
          /\ v # last.w
          /\ imps[v].pc = "await"
          /\ oneshots[imps[v].rx].state = "open"

\* C17: the mpsc channel never holds more Hijinks than the buffer it was made
\* with.  A send completes only when there is room and puts the Hijinks at the
\* back of the queue; an imp sending to a full channel stays in its send with
\* its Hijinks in hand; and while the king listens a Hijinks leaves the
\* queue only at the front, taken by the king.
C17_Backpressure ==
    /\ [](Len(chan) <= buffer)
    /\ [][/\ last'.op = "send" =>
                /\ Len(chan) < buffer
                /\ Front(chan') = chan
                /\ Last(chan').from = last'.w
                /\ [Last(chan') EXCEPT !.seq = 0] = imps[last'.w].msg
          /\ \A w \in DOMAIN imps :
                (imps[w].pc = "send" /\ rxOpen /\ Len(chan) = buffer) =>
                    imps'[w] = imps[w]
          /\ (kingPc = "Listening" /\ chan' # chan) =>
                \/ last'.op = "send" /\ Front(chan') = chan
                \/ /\ last'.op = "recv"
                   /\ chan' = Tail(chan)
                   /\ last'.msg = Head(chan)]_vars

\* C17 witness: an imp has just filled the mpsc channel, which holds more than
\* one Hijinks, while another imp is in its send with a Hijinks in hand.
C17_Witness ==
    /\ last.op = "send"
    /\ rxOpen
    /\ Len(chan) = buffer
    /\ Len(chan) > 1
    /\ \E w \in DOMAIN imps : imps[w].pc = "send" /\ imps[w].msg # NoMsg

\* C18: the king's position only moves forward, from Idle (summoned, spawning
\* included) to Listening and from there to the end of listen; once he listens
\* no imp is ever provisioned again; and imps are provisioned by one call
\* only, so that there is a single cohort.
C18_LifeCycle ==
    [][/\ <<kingPc, kingPc'>> \in
              {<<"Idle", "Idle">>, <<"Idle", "Listening">>,
               <<"Listening", "Listening">>, <<"Listening", "Failed">>,
               <<"Failed", "Failed">>, <<"Failed", "Dropped">>,
               <<"Dropped", "Dropped">>}
       /\ kingPc # "Idle" => Len(imps') = Len(imps)
       /\ Len(imps') > Len(imps) => imps = <<>>]_vars

\* C19: in every state the frames in the reservoir plus the frames in the
\* private vectors of all imps are exactly as many as the frames the king was
\* summoned with.
C19_StrictConservation ==
    Len(frames) + SumLen(imps, Len(imps)) = Len(pool0)

\* The rows of the file that deserialize, among the first n.
WellFormed(n) == {i \in 1..n : Deserializes(rdr.file[i])}

\* C20: from_path on a file that can be opened never fails; after every row
\* read the vector holds exactly the rows so far that deserialize, each once
\* and in the order of the file, and one warning was logged for every other
\* row; so it is when from_path returns, with the whole file read.
C20_CatalogTolerance ==
    LET n == rdr.pos - 1
    IN  /\ rdr.readable => rdr.pc # "failed"
        /\ rdr.pc \in {"rows", "done"} =>
              /\ Range(quotes) = WellFormed(n)
              /\ \A i, j \in 1..Len(quotes) : i < j => quotes[i] < quotes[j]
              /\ rdr.warnings = n - Cardinality(WellFormed(n))
        /\ rdr.pc = "done" => n = Len(rdr.file)

\* C20 witness: from_path has returned a catalog of two quotes from a file in
\* which a row that does not deserialize stands between them.
C20_Witness ==
    /\ kingPc = "Summoning"
    /\ rdr.pc = "done"
    /\ rdr.warnings >= 1
    /\ Len(quotes) >= 2
    /\ \E i \in 1..Len(rdr.file) :
          /\ ~Deserializes(rdr.file[i])
          /\ quotes[1] < i
          /\ i < quotes[2]

\* C21: when the quotes file cannot be opened, summon returns an error and
\* nothing of the king ever exists: no king to spawn or listen, no mpsc
\* channel, no imp, no catalog.
C21_SummonFailsWithoutFile ==
    ~rdr.readable =>
        /\ kingPc \in {"Summoning", "SummonFailed"}
        /\ rdr.pc \in {"open", "failed"}
        /\ ~rxOpen
        /\ chan = <<>>
        /\ imps = <<>>
        /\ quotes = <<>>

\* C21 witness: summon has returned the error of a file that holds rows but
\* could not be opened.
C21_Witness ==
    /\ kingPc = "SummonFailed"
    /\ last.op = "summon_err"
    /\ ~rdr.readable
    /\ \E i \in 1..Len(rdr.file) : Deserializes(rdr.file[i])

\* C22: instigate called with frames in the imp's vector takes exactly the
\* last frame out of it and builds a NewWindow Meddle around that frame,
\* without creating a reply channel; the send that follows puts exactly this
\* Meddle, and nothing else, into the mpsc channel, leaves the vector alone
\* and ends the call (the imp pauses).
C22_InstigatePopsOne ==
    [][\A w \in DOMAIN imps :
          /\ (last'.op = "instigate" /\ last'.w = w) =>
                /\ imps[w].frames # <<>>
                /\ Len(imps'[w].frames) = Len(imps[w].frames) - 1
                /\ Append(imps'[w].frames, imps'[w].msg.frame) = imps[w].frames
                /\ imps'[w].msg = MeddleMsg(w, "NewWindow", Last(imps[w].frames))
                /\ imps'[w].pc = "send"
                /\ oneshots' = oneshots
                /\ chan' = chan
          /\ (last'.op = "send" /\ last'.w = w /\ imps[w].msg.act = "NewWindow") =>
                /\ Len(chan') = Len(chan) + 1
                /\ Front(chan') = chan
                /\ Last(chan').type = "Meddle"
                /\ Last(chan').frame = imps[w].msg.frame
                /\ Last(chan').frame # NoFrame
                /\ imps'[w].frames = imps[w].frames
                /\ imps'[w].pc = "pause"
                /\ oneshots' = oneshots]_vars

\* C22 witness: the imp has just sent a NewWindow Meddle with a frame that is
\* no longer in its vector and is now pausing.
C22_Witness ==
    /\ last.op = "send"
    /\ chan # <<>>
    /\ Last(chan).act = "NewWindow"
    /\ Last(chan).frame # NoFrame
    /\ Last(chan).from = last.w
    /\ imps[last.w].pc = "pause"
    /\ Last(chan).frame \notin Range(imps[last.w].frames)

\* C23: instigate called with an empty vector builds a Filch around a reply
\* channel and no Meddle; the send that follows puts exactly this Filch into
\* the mpsc channel and leaves the imp awaiting the reply; while it awaits,
\* the imp sends nothing; and the reply takes the imp, alive, to its pause and
\* from there back to the top of its loop.
C23_InstigateEmptyFilches ==
    [][\A w \in DOMAIN imps :
          /\ (last'.op = "filch" /\ last'.w = w) =>
                /\ imps[w].frames = <<>>
                /\ imps'[w].msg.type = "Filch"
                /\ imps'[w].msg.frame = NoFrame
                /\ imps'[w].pc = "send"
                /\ chan' = chan
          /\ (last'.op = "send" /\ last'.w = w /\ imps[w].msg.type = "Filch") =>
                /\ Len(chan') = Len(chan) + 1
                /\ Front(chan') = chan
                /\ Last(chan').type = "Filch"
                /\ Last(chan').tx = imps[w].rx
                /\ imps'[w].pc = "await"
          /\ imps[w].pc = "await" =>
                /\ imps'[w].pc \in {"await", "pause", "exited"}
                /\ \A i \in 1..Len(chan') : chan'[i].from = w =>
                       \E j \in 1..Len(chan) : chan[j] = chan'[i]
          /\ (last'.op = "recv_reply" /\ last'.w = w) =>
                /\ imps'[w].pc = "pause"
                /\ chan' = chan
          /\ (imps[w].pc = "pause" /\ imps'[w] # imps[w]) =>
                imps'[w].pc = "loop"]_vars

\* C23 witness: the imp, having run out of frames, has sent a Filch, received
\* the reply, paused and is back at the top of its loop with the frames of
\* the reply.
C23_Witness ==
    \E w \in DOMAIN imps : \E r \in DOMAIN oneshots :
        /\ imps[w].pc = "loop"
        /\ last.op = "pause"
        /\ last.w = w
        /\ oneshots[r].owner = w
        /\ oneshots[r].state = "taken"
        /\ imps[w].frames = oneshots[r].value
        /\ imps[w].frames # <<>>

\* C24: spoil builds one CloseWindow Meddle without a frame, labelled with the
\* imp that built it, and the send that follows puts exactly this Meddle into
\* the mpsc channel; neither step touches the imp's vector of frames, empty
\* or not, and neither makes a reply channel.
C24_SpoilSendsCloseWindow ==
    [][\A w \in DOMAIN imps :
          /\ (last'.op = "spoil" /\ last'.w = w) =>
                /\ imps'[w].msg = MeddleMsg(w, "CloseWindow", NoFrame)
                /\ imps'[w].frames = imps[w].frames
                /\ imps'[w].pc = "send"
                /\ chan' = chan
                /\ oneshots' = oneshots
          /\ (last'.op = "send" /\ last'.w = w
                 /\ imps[w].msg.type = "Meddle"
                 /\ imps[w].msg.act = "CloseWindow") =>
                /\ chan' = Append(chan, [MeddleMsg(w, "CloseWindow", NoFrame)
                                            EXCEPT !.seq = imps[w].sent + 1])
                /\ imps'[w].frames = imps[w].frames
                /\ imps'[w].pc = "pause"
                /\ oneshots' = oneshots]_vars

\* C24 witness: an imp whose vector is empty has just sent a CloseWindow
\* Meddle, which is the newest message in the mpsc channel.
C24_Witness ==
    \E w \in DOMAIN imps :
        /\ last.op = "send"
        /\ last.w = w
        /\ imps[w].frames = <<>>
        /\ chan # <<>>
        /\ Last(chan) = [MeddleMsg(w, "CloseWindow", NoFrame)
                           EXCEPT !.seq = imps[w].sent]

C26_DroppedReplyEndsImp ==
    [][\A w \in DOMAIN imps :
          /\ (last'.op = "send_err" /\ last'.w = w /\ imps[w].msg.type = "Filch") =>
                /\ imps'[w].pc = "await"
                /\ imps'[w].rx = imps[w].rx
                /\ oneshots'[imps[w].rx].state = "dropped"
                /\ chan' = chan
          /\ (imps[w].pc = "await" /\ oneshots[imps[w].rx].state = "dropped"
                 /\ imps'[w] # imps[w]) =>
                /\ last'.op = "recv_err"
                /\ last'.w = w
          /\ (last'.op = "recv_err" /\ last'.w = w) =>
                /\ imps[w].pc = "await"
                /\ oneshots[imps[w].rx].state = "dropped"
                /\ oneshots[imps[w].rx].sends = 0
                /\ imps'[w].frames = imps[w].frames
                /\ imps'[w].pc = "exited"
                /\ chan' = chan
                /\ oneshots' = oneshots
          /\ imps[w].pc = "exited" =>
                /\ imps'[w] = imps[w]
                /\ \A i \in 1..Len(chan') : chan'[i].from = w =>
                       \E j \in 1..Len(chan) : chan[j] = chan'[i]
                /\ \A r \in DOMAIN oneshots' :
                       oneshots'[r].owner = w => r \in DOMAIN oneshots]_vars

\* C26 witness: the only imp was given frames, used every one of them in a
\* NewWindow that it sent, and sent nothing else; the mpsc channel was closed
\* when it tried to send its first Filch, and the imp has just ended with the
\* error of the receiver of its oneshot channel.
C26_Witness ==
    /\ last.op = "recv_err"
    /\ ~rxOpen
    /\ Len(imps) = 1
    /\ last.w = 1
    /\ imps[1].pc = "exited"
    /\ imps[1].frames = <<>>
    /\ pool0 # <<>>
    /\ imps[1].sent = (IF Len(pool0) < FRAMES THEN Len(pool0) ELSE FRAMES)
    /\ Len(oneshots) = 1
    /\ oneshots[1].owner = 1
    /\ oneshots[1].state = "dropped"

\* The task of imp w awaits the receiver of a oneshot channel whose sender is
\* gone without a value: the await fails as soon as the task is polled.
ImpFailed(w) ==
    IF w \in DOMAIN imps
    THEN /\ imps[w].pc = "await"
         /\ imps[w].rx \in DOMAIN oneshots
         /\ oneshots[imps[w].rx].state = "dropped"
    ELSE FALSE

\* C27: the task of an imp ends only in a step in which one of its sends or
\* its wait for a reply fails; a failed send either ends the task at once or
\* (inside filch) leaves it at a wait that can only fail; a failed wait ends
\* it; from the first failure on the imp puts no message into the mpsc
\* channel; and a task at a wait that can only fail does end.
C27_ExitIffFailure ==
    /\ [][\A w \in DOMAIN imps :
             /\ (imps[w].pc # "exited" /\ imps'[w].pc = "exited") =>
                   /\ last'.op \in {"send_err", "recv_err"}
                   /\ last'.w = w
             /\ (last'.op = "send_err" /\ last'.w = w) =>
                   /\ ~rxOpen
                   /\ chan' = chan
                   /\ imps'[w].sent = imps[w].sent
                   /\ IF imps[w].msg.type = "Filch"
                      THEN ImpFailed(w)' ELSE imps'[w].pc = "exited"
             /\ (last'.op = "recv_err" /\ last'.w = w) =>
                   /\ ImpFailed(w)
                   /\ imps'[w].pc = "exited"
             /\ (ImpFailed(w) \/ imps[w].pc = "exited") =>
                   /\ ImpFailed(w)' \/ imps'[w].pc = "exited"
                   /\ imps'[w].sent = imps[w].sent
                   /\ \A i \in 1..Len(chan') : chan'[i].from = w =>
                          \E j \in 1..Len(chan) : chan[j] = chan'[i]]_vars
    /\ \A w \in 1..MaxImps : ImpFailed(w) ~> Exited(w)

\* C27 witness: the mpsc channel is closed, the send of a Meddle or of a
\* Vandalize has just failed and ended the task of an imp that had sent
\* messages before.
C27_Witness ==
    /\ last.op = "send_err"
    /\ ~rxOpen
    /\ last.w \in DOMAIN imps
    /\ imps[last.w].pc = "exited"
    /\ imps[last.w].sent > 0

\* The task of imp w is suspended in `rx.await` and the sender of the oneshot
\* channel is held somewhere, nothing sent on it.
Suspended(w) ==
    IF w \in DOMAIN imps
    THEN /\ imps[w].pc = "await"
         /\ imps[w].rx \in DOMAIN oneshots
         /\ oneshots[imps[w].rx].state = "open"
    ELSE FALSE

\* C28: an imp suspended in the wait for a reply takes no step as long as the
\* sender of its oneshot channel is neither used nor dropped: across every
\* step that leaves the sender held the imp is unchanged and no message of
\* its own enters the mpsc channel; no step of its task is enabled.
C28_NoReplyTimeout ==
    [][\A w \in DOMAIN imps :
          Suspended(w) =>
              /\ ~ENABLED ImpStep(w)
              /\ last'.op \in ImpOps => last'.w # w
              /\ Suspended(w)' => imps'[w] = imps[w]
              /\ \A i \in 1..Len(chan') : chan'[i].from = w =>
                     \E j \in 1..Len(chan) : chan[j] = chan'[i]]_vars

\* C28 witness: the Filch of a suspended imp waits among the user events of
\* the event loop, where the king has just put it; the imp is where it was.
C28_Witness ==
    /\ last.op = "recv"
    /\ events # <<>>
    /\ Last(events).type = "Filch"
    /\ Suspended(Last(events).from)
    /\ imps[Last(events).from].rx = Last(events).tx

\* C29: no step makes the king's reservoir longer, and the step that ends the
\* task of an imp leaves the reservoir as it was, whatever frames the imp
\* still held: they end with the task.
C29_PoolNeverGrows ==
    [][/\ Len(frames') <= Len(frames)
       /\ \A w \in DOMAIN imps :
             (imps[w].pc # "exited" /\ imps'[w].pc = "exited") =>
                 /\ frames' = frames
                 /\ imps'[w].frames = imps[w].frames]_vars

\* C29 witness: the task of an imp has ended while the imp held frames, and
\* the reservoir is what it was at summon.
C29_Witness ==
    \E w \in DOMAIN imps :
        /\ imps[w].pc = "exited"
        /\ imps[w].frames # <<>>
        /\ last.op \in {"send_err", "recv_err"}
        /\ last.w = w
        /\ frames = pool0

\* The Filch messages under way: built and not yet sent, in the mpsc channel,
\* or among the user events of the event loop.
FilchesUnderWay ==
    {m \in Range(chan) \cup Range(events) \cup {imps[w].msg : w \in DOMAIN imps} :
        m.type = "Filch"}

\* C30: every call of filch makes a oneshot channel of its own, whose sender
\* goes into the Filch built in that call; a sender travels in one Filch only
\* and is used for one reply at most; and of the oneshot channels an imp has
\* made, only the one it is waiting on (or about to) can still be unanswered:
\* every earlier one has delivered its reply or its error.
C30_FreshOneshotPerFilch ==
    /\ [][\A w \in DOMAIN imps :
             (last'.op = "filch" /\ last'.w = w) =>
                 /\ oneshots' = Append(oneshots, NewOneshot(w))
                 /\ imps'[w].msg = FilchMsg(w, Len(oneshots'))
                 /\ imps'[w].rx = Len(oneshots')
                 /\ \A m \in FilchesUnderWay : m.tx # Len(oneshots')]_vars
    /\ [](/\ \A m \in FilchesUnderWay :
               /\ m.tx \in DOMAIN oneshots
               /\ oneshots[m.tx].owner = m.from
               /\ oneshots[m.tx].state = "open"
               /\ imps[m.from].rx = m.tx
          /\ \A m, n \in FilchesUnderWay : m.tx = n.tx => m = n
          /\ \A r \in DOMAIN oneshots :
               /\ oneshots[r].sends <= 1
               /\ oneshots[r].state \in {"open", "sent"} =>
                     /\ imps[oneshots[r].owner].rx = r
                     /\ imps[oneshots[r].owner].pc \in {"send", "await"})

\* C30 witness: an imp that has had the reply to one Filch is waiting on the
\* oneshot channel of its next one; the first channel is used up.
C30_Witness ==
    \E w \in DOMAIN imps : \E r \in DOMAIN oneshots :
        /\ oneshots[r].owner = w
        /\ oneshots[r].state = "taken"
        /\ imps[w].pc = "await"
        /\ imps[w].rx \in DOMAIN oneshots
        /\ imps[w].rx # r
        /\ oneshots[imps[w].rx].owner = w

C32_PauseAfterEmission ==
    [][\A w \in DOMAIN imps :
          /\ (imps'[w].pc = "send" /\ imps[w].pc # "send") =>
                imps[w].pc \in {"loop", "roll"}
          /\ (imps'[w].pc = "roll" /\ imps[w].pc # "roll") => imps[w].pc = "loop"
          /\ (last'.op = "send" /\ last'.w = w) =>
                /\ imps'[w].sent = imps[w].sent + 1
                /\ imps'[w].pc = IF imps[w].msg.type = "Filch"
                                 THEN "await" ELSE "pause"
          /\ imps'[w].sent # imps[w].sent => (last'.op = "send" /\ last'.w = w)
          /\ (last'.op = "recv_reply" /\ last'.w = w) => imps'[w].pc = "pause"
          /\ (imps'[w].pc = "loop" /\ imps[w].pc # "loop") =>
                /\ imps[w].pc = "pause"
                /\ last'.op = "pause"
                /\ last'.w = w
                /\ last'.count \in 0..U16Max
          /\ (last'.op = "pause" /\ last'.w = w) =>
                /\ imps[w].pc = "pause"
                /\ imps'[w].pc = "loop"
                /\ chan' = chan]_vars

\* C32 witness: an imp that has sent, asked for frames, had its reply and
\* sent again has just come out of a pause of the longest kind.
C32_Witness ==
    /\ last.op = "pause"
    /\ last.count = U16Max
    /\ last.w \in DOMAIN imps
    /\ imps[last.w].pc = "loop"
    /\ imps[last.w].sent >= 2
    /\ \E r \in DOMAIN oneshots :
          oneshots[r].owner = last.w /\ oneshots[r].state = "taken"

\* The task of imp w is suspended in `self.tx.send(..).await`: the receiver
\* is alive and the mpsc channel is full.
BlockedOnSend(w) ==
    IF w \in DOMAIN imps
    THEN imps[w].pc = "send" /\ rxOpen /\ Len(chan) >= buffer
    ELSE FALSE

\* C33: while the event loop is alive the king is summoned or listening, never
\* failed; a listening king with a Hijinks in the mpsc channel can always take
\* his turn, whatever the event loop has queued and whatever replies are
\* outstanding; in particular he can whenever an imp is suspended on the full
\* channel, and his turn leaves room for the send of such an imp.
C33_KingNeverBlocked ==
    /\ [](/\ proxyOpen => kingPc \in {"Idle", "Listening"}
          /\ (kingPc = "Listening" /\ chan # <<>>) => ENABLED ListenStep
          /\ \A w \in 1..MaxImps :
               (proxyOpen /\ kingPc = "Listening" /\ BlockedOnSend(w)) =>
                   /\ chan # <<>>
                   /\ ENABLED ListenStep)
    /\ [][\A w \in DOMAIN imps :
             (BlockedOnSend(w) /\ last'.op = "recv") =>
                 /\ Len(chan') = Len(chan) - 1
                 /\ Len(chan') < buffer
                 /\ ~BlockedOnSend(w)']_vars

\* C33 witness: the event loop is alive and has user events queued that it
\* has not handled, the mpsc channel is full and an imp is suspended in its
\* send; the king is listening.
C33_Witness ==
    /\ proxyOpen
    /\ kingPc = "Listening"
    /\ events # <<>>
    /\ Len(chan) = buffer
    /\ \E w \in DOMAIN imps : BlockedOnSend(w)

\* C34: from the moment an imp has built a Filch until it has the reply or
\* the error, its vector of frames is empty: the vector that the reply
\* replaces holds nothing.
C34_FilchOnlyWhenEmpty ==
    \A w \in DOMAIN imps :
        /\ (last.op = "filch" /\ last.w = w) => imps[w].frames = <<>>
        /\ imps[w].msg.type = "Filch" => imps[w].frames = <<>>
        /\ imps[w].pc = "await" => imps[w].frames = <<>>
        /\ (last.op = "recv_reply" /\ last.w = w) =>
              Len(imps[w].frames) = Len(oneshots[last.count].value)

\* C34 witness: the reply to the Filch of an imp has been sent and not yet
\* received; the vector it is about to replace is empty.
C34_Witness ==
    \E w \in DOMAIN imps :
        /\ imps[w].pc = "await"
        /\ imps[w].rx \in DOMAIN oneshots
        /\ oneshots[imps[w].rx].state = "sent"
        /\ oneshots[imps[w].rx].value # <<>>
        /\ imps[w].frames = <<>>

\* C35: an imp never holds more than FRAMES frames: every imp made by
\* spawn_imps starts with exactly FRAMES, a reply leaves it with FRAMES at
\* most, and every other step leaves its vector as long as it was or shorter.
C35_AtMostFramesPerImp ==
    /\ [](\A w \in DOMAIN imps : Len(imps[w].frames) <= FRAMES)
    /\ [][/\ \A w \in DOMAIN imps' :
               w \notin DOMAIN imps =>
                   /\ last'.op = "spawn_imps"
                   /\ Len(imps'[w].frames) = FRAMES
          /\ \A w \in DOMAIN imps :
               IF last'.op = "recv_reply" /\ last'.w = w
               THEN Len(imps'[w].frames) <= FRAMES
               ELSE /\ Len(imps'[w].frames) <= Len(imps[w].frames)
                    /\ \A i \in 1..Len(imps'[w].frames) :
                          imps'[w].frames[i] = imps[w].frames[i]]_vars

\* C35 witness: spawn_imps has just made imps, each with exactly FRAMES
\* frames.
C35_Witness ==
    /\ last.op = "spawn_imps"
    /\ imps # <<>>
    /\ \A w \in DOMAIN imps : Len(imps[w].frames) = FRAMES /\ imps[w].sent = 0

\* C36: a reign whose spawn_imps could not provision the imps asked for
\* starts no task and still enters listen: the king is listening, not failed;
\* and a king who listens without any imp has an empty mpsc channel, no turn
\* of his loop to take and nothing delivered to the event loop.
C36_ReignWithoutImps ==
    /\ (last.op = "spawn_imps" /\ kingPc # "Idle"
          /\ last.avail < last.count * FRAMES) =>
            /\ last.created = 0
            /\ Len(imps) = last.w
            /\ kingPc = "Listening"
    /\ (kingPc # "Idle" /\ imps = <<>>) =>
            /\ kingPc = "Listening"
            /\ chan = <<>>
            /\ events = <<>>
            /\ oneshots = <<>>
            /\ ~ENABLED ListenStep

\* C36 witness: reign asked for imps the reservoir could not provision; no
\* imp exists and the king listens.
C36_Witness ==
    /\ last.op = "spawn_imps"
    /\ last.count > 0
    /\ last.avail < last.count * FRAMES
    /\ last.created = 0
    /\ imps = <<>>
    /\ kingPc = "Listening"

\* The task of imp w is inside the loop of vandalize and the catalog is empty.
RollingOverNothing(w) ==
    IF w \in DOMAIN imps THEN imps[w].pc = "roll" /\ quotes = <<>> ELSE FALSE

\* C37: with an empty catalog every value drawn in vandalize is rejected: an
\* imp inside the loop of vandalize stays inside it in every step, its own
\* steps are rolls that change nothing of it, it builds and sends no Hijinks
\* and reaches neither its pause nor the top of its loop nor its end.
C37_EmptyCatalogSpins ==
    [][\A w \in DOMAIN imps :
          RollingOverNothing(w) =>
              /\ RollingOverNothing(w)'
              /\ imps'[w] = imps[w]
              /\ (last'.op \in ImpOps /\ last'.w = w) =>
                    /\ last'.op = "roll"
                    /\ ~(last'.count < Len(quotes))
              /\ \A i \in 1..Len(chan') : chan'[i].from = w =>
                     \E j \in 1..Len(chan) : chan[j] = chan'[i]]_vars

\* C37 witness: the catalog is empty and an imp that had sent a Hijinks
\* before has just had a value rejected in vandalize; it is still there.
C37_Witness ==
    /\ last.op = "roll"
    /\ quotes = <<>>
    /\ RollingOverNothing(last.w)
    /\ imps[last.w].sent > 0
    /\ imps[last.w].msg = NoMsg

\* The monitor is wide and high enough for a Frame: both sides exceed twice
\* MIN_SPAN.
RoomyMonitor ==
    /\ app.monitor_size.width > 2 * MIN_SPAN
    /\ app.monitor_size.height > 2 * MIN_SPAN

\* C38: for a monitor whose width W and height H both exceed 2*MIN_SPAN,
\* Frame::from does not panic, the width and the height it draws are at least
\* MIN_SPAN and at most W - MIN_SPAN and H - MIN_SPAN, and the position of the
\* Frame it returns has x <= W - width and y <= H - height: the Frame lies
\* within the monitor.
C38_FrameWithinMonitor ==
    RoomyMonitor =>
        /\ app.pc # "panic"
        /\ app.pc \in {"position", "done"} =>
              /\ app.size.width >= MIN_SPAN
              /\ app.size.width <= app.monitor_size.width - MIN_SPAN
              /\ app.size.height >= MIN_SPAN
              /\ app.size.height <= app.monitor_size.height - MIN_SPAN
        /\ app.pc = "done" =>
              /\ app.position.x <= app.monitor_size.width - app.size.width
              /\ app.position.y <= app.monitor_size.height - app.size.height
              /\ app.position.x + app.size.width <= app.monitor_size.width
              /\ app.position.y + app.size.height <= app.monitor_size.height

\* C38 witness: a Frame was returned for a monitor with both sides above
\* 2*MIN_SPAN, of the largest width drawn for that monitor and at the
\* rightmost position that width leaves.
C38_Witness ==
    /\ app.pc = "done"
    /\ last.op = "gen_position"
    /\ RoomyMonitor
    /\ app.size.width = app.monitor_size.width - MIN_SPAN - 1
    /\ app.position.x = app.monitor_size.width - app.size.width - 1

\* C40 as claimed: for a monitor whose width or height is at most 2*MIN_SPAN,
\* Frame::from produces no Frame.
C40_NoFrameForSmallMonitor ==
    (\/ app.monitor_size.width <= 2 * MIN_SPAN
     \/ app.monitor_size.height <= 2 * MIN_SPAN) => app.pc # "done"

\* C39 as claimed: once a window has been removed from the table of windows
\* and none is left in it, about_to_wait requests the exit of the event loop.
C39_ExitOnceNoWindowLeft ==
    (/\ last.op = "about_to_wait"
     /\ app.windows = {}
     /\ app.created > Cardinality(app.requested)) => app.exiting

====
